---------------------------- MODULE Spec2Model ----------------------------
(***************************************************************************)
(* A model of the weather MCP server of src/server.py: the request         *)
(* primitive make_openmeteo_request and the three tools                    *)
(* get_current_weather, get_forecast and get_location.                     *)
(*                                                                         *)
(* One tool call is followed from its entry to its outcome.  A call has    *)
(* one suspension point, the await of make_openmeteo_request (of the GET   *)
(* inside it), so a call is two steps: the code up to the await, and the   *)
(* completion of the await together with all the code after it.            *)
(*                                                                         *)
(* JSON texts are sequences of tokens; json.dumps produces them (with the  *)
(* separators and the indentation json.dumps writes) and json.loads parses *)
(* them.  The quoting of the characters inside a string token is not       *)
(* modelled: a string token carries the characters of the string.          *)
(***************************************************************************)
EXTENDS Integers, Sequences, FiniteSets, TLC

(***************************************************************************)
(* Bounds of the model.                                                    *)
(***************************************************************************)
\* how far beyond the limits of a range the coordinates are tried
CoordSlack == 1
\* how far beyond the limits of the clamp the day counts are tried
DaysSlack == 3
\* the longest location name tried
MaxNameLen == 2

(***************************************************************************)
(* Constants of the program.                                               *)
(***************************************************************************)
LatLimit == 90
LonLimit == 180
MinDays == 1
MaxDays == 16

OPENMETEO_API_BASE == "https://api.open-meteo.com/v1"
GEOCODING_API_BASE == "https://geocoding-api.open-meteo.com/v1"

(***************************************************************************)
(* JSON values, as Python holds them after decoding.  Every value has the  *)
(* same shape: t is the type, a the atom (the characters of a string, the  *)
(* numeral of a number, true/false), kids the members <<key, value>> of an *)
(* object or the elements <<"", value>> of a list.  JNull is Python's      *)
(* None.                                                                   *)
(***************************************************************************)
JNull == [t |-> "null", a |-> "", kids |-> <<>>]
JBool(b) == [t |-> "bool", a |-> b, kids |-> <<>>]
JNum(n) == [t |-> "num", a |-> n, kids |-> <<>>]
JStr(s) == [t |-> "str", a |-> s, kids |-> <<>>]
JObj(members) == [t |-> "obj", a |-> "", kids |-> members]
JArr(elems) == [t |-> "arr", a |-> "", kids |-> [i \in 1..Len(elems) |-> <<"", elems[i]>>]]

\* Python's truth value of a decoded JSON value: None, False, 0, "", {} and
\* [] are false
Truthy(v) ==
    CASE v.t = "null" -> FALSE
      [] v.t = "bool" -> v.a = "true"
      [] v.t = "num" -> v.a \notin {"0", "0.0"}
      [] v.t = "str" -> v.a # ""
      [] OTHER -> v.kids # <<>>

(***************************************************************************)
(* json.dumps.  indent < 0 stands for indent=None.                         *)
(***************************************************************************)
Punct(s) == [k |-> "punct", s |-> s]
StrTok(s) == [k |-> "string", s |-> s]
NumTok(s) == [k |-> "number", s |-> s]
LitTok(s) == [k |-> "literal", s |-> s]
WsTok(s) == [k |-> "ws", s |-> s]

RECURSIVE Spaces(_)
Spaces(n) == IF n <= 0 THEN "" ELSE " " \o Spaces(n - 1)

Newline(indent, level) ==
    IF indent < 0 THEN <<>> ELSE <<WsTok("\n" \o Spaces(indent * level))>>

ItemSeparator(indent, level) ==
    IF indent < 0 THEN <<Punct(","), WsTok(" ")>>
    ELSE <<Punct(",")>> \o Newline(indent, level)

RECURSIVE DumpsAt(_, _, _)
RECURSIVE DumpItems(_, _, _, _)
DumpItems(t, kids, indent, level) ==
    LET first == kids[1]
        item == (IF t = "obj"
                 THEN <<StrTok(first[1]), Punct(":"), WsTok(" ")>>
                 ELSE <<>>) \o DumpsAt(first[2], indent, level)
    IN  IF Len(kids) = 1 THEN item
        ELSE item \o ItemSeparator(indent, level)
                  \o DumpItems(t, Tail(kids), indent, level)

DumpsAt(v, indent, level) ==
    CASE v.t = "null" -> <<LitTok("null")>>
      [] v.t = "bool" -> <<LitTok(v.a)>>
      [] v.t = "num" -> <<NumTok(v.a)>>
      [] v.t = "str" -> <<StrTok(v.a)>>
      [] OTHER ->
           LET open == IF v.t = "obj" THEN "{" ELSE "["
               close == IF v.t = "obj" THEN "}" ELSE "]"
           IN  IF v.kids = <<>> THEN <<Punct(open), Punct(close)>>
               ELSE <<Punct(open)>> \o Newline(indent, level + 1)
                    \o DumpItems(v.t, v.kids, indent, level + 1)
                    \o Newline(indent, level) \o <<Punct(close)>>

\* json.dumps(obj)
Dumps(v) == DumpsAt(v, -1, 0)
\* json.dumps(obj, indent=2)
DumpsIndent2(v) == DumpsAt(v, 2, 0)

(***************************************************************************)
(* json.loads: [ok, val]; ok is FALSE where json.loads raises              *)
(* JSONDecodeError.                                                        *)
(***************************************************************************)
ParseFail == [ok |-> FALSE, val |-> JNull, rest |-> <<>>]
ParseOk(v, rest) == [ok |-> TRUE, val |-> v, rest |-> rest]

RECURSIVE ParseValue(_)
RECURSIVE ParseItems(_, _, _)
\* the members of an object (t = "obj") or the elements of a list, after
\* the opening bracket; acc holds the items read so far
ParseItems(t, toks, acc) ==
    LET close == IF t = "obj" THEN Punct("}") ELSE Punct("]")
        keyed == t = "obj"
        done(items) == [t |-> t, a |-> "", kids |-> items]
    IN  IF toks = <<>> THEN ParseFail
        ELSE IF acc = <<>> /\ Head(toks) = close THEN ParseOk(done(acc), Tail(toks))
        ELSE IF keyed /\ ~(Len(toks) >= 2 /\ toks[1].k = "string" /\ toks[2] = Punct(":"))
        THEN ParseFail
        ELSE LET key == IF keyed THEN toks[1].s ELSE ""
                 r == ParseValue(IF keyed THEN SubSeq(toks, 3, Len(toks)) ELSE toks)
                 items == Append(acc, <<key, r.val>>)
             IN  IF ~r.ok \/ r.rest = <<>> THEN ParseFail
                 ELSE IF Head(r.rest) = Punct(",")
                 THEN ParseItems(t, Tail(r.rest), items)
                 ELSE IF Head(r.rest) = close
                 THEN ParseOk(done(items), Tail(r.rest))
                 ELSE ParseFail

ParseValue(toks) ==
    IF toks = <<>> THEN ParseFail
    ELSE LET h == Head(toks) IN
         CASE h.k = "literal" ->
                IF h.s = "null" THEN ParseOk(JNull, Tail(toks))
                ELSE IF h.s \in {"true", "false"} THEN ParseOk(JBool(h.s), Tail(toks))
                ELSE ParseFail
           [] h.k = "number" -> ParseOk(JNum(h.s), Tail(toks))
           [] h.k = "string" -> ParseOk(JStr(h.s), Tail(toks))
           [] h = Punct("{") -> ParseItems("obj", Tail(toks), <<>>)
           [] h = Punct("[") -> ParseItems("arr", Tail(toks), <<>>)
           [] OTHER -> ParseFail

IsWs(tok) == tok.k = "ws"

Loads(text) ==
    LET r == ParseValue(SelectSeq(text, LAMBDA tok : ~IsWs(tok)))
    IN  [ok |-> r.ok /\ r.rest = <<>>, val |-> IF r.ok /\ r.rest = <<>> THEN r.val ELSE JNull]

(***************************************************************************)
(* Arguments.  A coordinate is a float (ty = "float", of value n), the     *)
(* float nan, or an argument that is no number at all (a str).  A name is  *)
(* a str, held as its sequence of characters, or None.                     *)
(***************************************************************************)
Coord(n) == [ty |-> "float", n |-> n]
NaN == [ty |-> "nan", n |-> 0]
StrCoord == [ty |-> "str", n |-> 0]
NoCoord == [ty |-> "unused", n |-> 0]

Around(limit) ==
    {0, limit, -limit} \cup {limit + k : k \in 1..CoordSlack}
                       \cup {-(limit + k) : k \in 1..CoordSlack}

Latitudes == {Coord(n) : n \in Around(LatLimit)} \cup {NaN, StrCoord}
Longitudes == {Coord(n) : n \in Around(LonLimit)} \cup {NaN, StrCoord}
DayCounts == (MinDays - DaysSlack)..(MaxDays + DaysSlack)

\* characters str.strip() removes, and one it keeps
Whitespace == {" ", "\t"}
Chars == Whitespace \cup {"x"}
Name(chars) == [ty |-> "str", chars |-> chars]
NoneName == [ty |-> "none", chars |-> <<>>]
NoName == [ty |-> "unused", chars |-> <<>>]
Names == {Name(cs) : cs \in UNION {[1..n -> Chars] : n \in 0..MaxNameLen}} \cup {NoneName}

(***************************************************************************)
(* Exceptions: the class, whether it derives from Exception or only from   *)
(* BaseException (asyncio.CancelledError), and str(e).                     *)
(***************************************************************************)
NoExc == [type |-> "", base |-> "", msg |-> ""]
Exc(type, msg) == [type |-> type, base |-> "Exception", msg |-> msg]
CancelledError == [type |-> "CancelledError", base |-> "BaseException", msg |-> ""]

\* how a coroutine ends: it returns a value or raises
Return(v) == [kind |-> "return", value |-> v, exc |-> NoExc]
Raise(e) == [kind |-> "raise", value |-> JNull, exc |-> e]
Pending == [kind |-> "pending", value |-> JNull, exc |-> NoExc]

\* how a tool call ends: it returns a str (a JSON text) or raises
ReturnText(text) == [kind |-> "return", text |-> text, exc |-> NoExc]
RaiseOut(e) == [kind |-> "raise", text |-> <<>>, exc |-> e]
Running == [kind |-> "running", text |-> <<>>, exc |-> NoExc]

(***************************************************************************)
(* Formatting of the numbers an f-string writes into a URL.                *)
(***************************************************************************)
Digit(d) == <<"0", "1", "2", "3", "4", "5", "6", "7", "8", "9">>[d + 1]

RECURSIVE NatStr(_)
NatStr(n) == IF n < 10 THEN Digit(n) ELSE NatStr(n \div 10) \o Digit(n % 10)

\* str(int)
IntStr(n) == IF n < 0 THEN "-" \o NatStr(-n) ELSE NatStr(n)

\* str(float), of a float of integer value
FloatStr(c) == IF c.ty = "nan" THEN "nan" ELSE IntStr(c.n) \o ".0"

RECURSIVE JoinChars(_)
JoinChars(cs) == IF cs = <<>> THEN "" ELSE Head(cs) \o JoinChars(Tail(cs))

Url(base, path, query) == [base |-> base, path |-> path, query |-> query]

\* the value of a parameter of a URL's query ("" when it has none)
QueryValue(url, key) ==
    LET hits == SelectSeq(url.query, LAMBDA p : p[1] = key)
    IN  IF hits = <<>> THEN "" ELSE hits[1][2]

(***************************************************************************)
(* The outbound GET of make_openmeteo_request, as the network decides it.  *)
(* "timeout": client.get raises httpx.TimeoutException.  "transport": it   *)
(* raises another httpx.TransportError (DNS, connection, TLS).             *)
(* "cancelled": the task is cancelled while client.get is awaited, which   *)
(* raises asyncio.CancelledError there.  "response": a response of the     *)
(* given status and body arrived; json_awaitable tells whether             *)
(* response.json() gives an awaitable, as the AsyncMock of                 *)
(* test_make_openmeteo_request_success does, or the decoded value itself,  *)
(* as httpx.Response.json, a plain method, does.                           *)
(***************************************************************************)
NoGet == [kind |-> "none", status |-> 0, body |-> <<>>, json_awaitable |-> FALSE]
GetFault(kind) == [kind |-> kind, status |-> 0, body |-> <<>>, json_awaitable |-> FALSE]
GetResponse(status, body, aw) ==
    [kind |-> "response", status |-> status, body |-> body, json_awaitable |-> aw]

Envelope(message) == JObj(<< <<"error", JStr(message)>> >>)

\* decoded JSON values an upstream answers with
Payloads ==
    { JObj(<<>>),
      JArr(<<>>),
      JObj(<< <<"current", JObj(<< <<"temperature_2m", JNum("20.5")>> >>)>> >>),
      JObj(<< <<"results",
                JArr(<< JObj(<< <<"name", JStr("New York")>>,
                                <<"latitude", JNum("40.7128")>> >>) >>)>> >>),
      JObj(<< <<"error", JBool("true")>>, <<"reason", JStr("Bad request")>> >>),
      JArr(<< JNum("1"), JNull >>) }

\* response bodies: the texts of the payloads and of null, an empty body, a
\* truncated one
Bodies == {Dumps(v) : v \in Payloads \cup {JNull}} \cup {<<>>, <<Punct("{")>>}
Statuses == {200, 201, 301, 404, 500}

\* response.raise_for_status() raises httpx.HTTPStatusError
IsErrorStatus(status) == ~(200 <= status /\ status <= 299)

(***************************************************************************)
(* make_openmeteo_request.  request_body is the body of its try statement  *)
(* for an outcome g of the GET: the value it returns or the exception that *)
(* leaves it.                                                              *)
(***************************************************************************)
request_body(g) ==
    CASE g.kind = "timeout" -> Raise(Exc("TimeoutException", "Timeout"))
      [] g.kind = "transport" -> Raise(Exc("ConnectError", "All connection attempts failed"))
      [] g.kind = "cancelled" -> Raise(CancelledError)
      [] OTHER ->
           IF IsErrorStatus(g.status)
           THEN Raise(Exc("HTTPStatusError", "HTTP Error"))
           ELSE LET decoded == Loads(g.body) IN
                IF ~decoded.ok
                THEN Raise(Exc("JSONDecodeError", "Expecting value"))
                ELSE IF ~g.json_awaitable
                THEN Raise(Exc("TypeError", "object can't be used in 'await' expression"))
                ELSE Return(decoded.val)

\* a bare except, which swallows a cancellation too
request_catches_all(e) == TRUE

\* the except clauses: httpx.TimeoutException, httpx.HTTPStatusError and
\* Exception, which all derive from Exception
request_catches(e) == e.base = "Exception"

make_openmeteo_request(g) ==
    LET r == request_body(g)
    IN  IF r.kind = "raise" /\ request_catches(r.exc) THEN Return(JNull) ELSE r

(***************************************************************************)
(* The tools.                                                              *)
(***************************************************************************)
\* lo <= c <= hi, of an int and an argument: "TypeError" where Python
\* raises it ('<=' not supported between instances of 'int' and 'str')
Between(lo, c, hi) ==
    CASE c.ty = "float" -> IF lo <= c.n /\ c.n <= hi THEN "true" ELSE "false"
      [] c.ty = "nan" -> "false"
      [] OTHER -> "TypeError"

CompareError == Exc("TypeError", "'<=' not supported between instances of 'int' and 'str'")

\* the two checks in the other order
validate_coordinates_lon_first(latitude, longitude) ==
    LET lat == Between(-LatLimit, latitude, LatLimit)
        lon == Between(-LonLimit, longitude, LonLimit)
    IN  IF lon = "TypeError" THEN RaiseOut(CompareError)
        ELSE IF lon = "false"
        THEN ReturnText(Dumps(Envelope("Longitude must be between -180 and 180")))
        ELSE IF lat = "TypeError" THEN RaiseOut(CompareError)
        ELSE IF lat = "false"
        THEN ReturnText(Dumps(Envelope("Latitude must be between -90 and 90")))
        ELSE Running

\* the validation of the coordinates, the same four lines in
\* get_current_weather and in get_forecast, outside their try statement:
\* ReturnText where they return, RaiseOut where a comparison raises, Running
\* where the code goes on
validate_coordinates(latitude, longitude) ==
    LET lat == Between(-LatLimit, latitude, LatLimit)
        lon == Between(-LonLimit, longitude, LonLimit)
    IN  IF lat = "TypeError" THEN RaiseOut(CompareError)
        ELSE IF lat = "false"
        THEN ReturnText(Dumps(Envelope("Latitude must be between -90 and 90")))
        ELSE IF lon = "TypeError" THEN RaiseOut(CompareError)
        ELSE IF lon = "false"
        THEN ReturnText(Dumps(Envelope("Longitude must be between -180 and 180")))
        ELSE Running

CURRENT_PARAMS ==
    "temperature_2m,is_day,showers,cloud_cover,wind_speed_10m,"
    \o "wind_direction_10m,pressure_msl,snowfall,precipitation,"
    \o "relative_humidity_2m,apparent_temperature,rain,weather_code,"
    \o "surface_pressure,wind_gusts_10m"

DAILY_PARAMS ==
    "temperature_2m_max,temperature_2m_min,precipitation_sum,"
    \o "wind_speed_10m_max,weather_code"

current_weather_url(latitude, longitude) ==
    Url(OPENMETEO_API_BASE, "/forecast",
        << <<"latitude", FloatStr(latitude)>>, <<"longitude", FloatStr(longitude)>>,
           <<"current", CURRENT_PARAMS>> >>)

Max(a, b) == IF a >= b THEN a ELSE b
Min(a, b) == IF a <= b THEN a ELSE b

\* the clamp without its lower limit
clamp_days_no_floor(days) == Min(days, MaxDays)

\* forecast_days = min(max(days, 1), 16)
clamp_days(days) == Min(Max(days, MinDays), MaxDays)

forecast_url(latitude, longitude, days) ==
    Url(OPENMETEO_API_BASE, "/forecast",
        << <<"latitude", FloatStr(latitude)>>, <<"longitude", FloatStr(longitude)>>,
           <<"daily", DAILY_PARAMS>>, <<"forecast_days", IntStr(clamp_days(days))>> >>)

location_url(name) ==
    Url(GEOCODING_API_BASE, "/search",
        << <<"name", JoinChars(name.chars)>>, <<"count", "5">>,
           <<"language", "en">>, <<"format", "json">> >>)

RECURSIVE LStrip(_)
LStrip(cs) ==
    IF cs # <<>> /\ Head(cs) \in Whitespace THEN LStrip(Tail(cs)) ELSE cs

RECURSIVE RStrip(_)
RStrip(cs) ==
    IF cs # <<>> /\ cs[Len(cs)] \in Whitespace
    THEN RStrip(SubSeq(cs, 1, Len(cs) - 1)) ELSE cs

\* str.strip()
Strip(cs) == RStrip(LStrip(cs))

\* not name
name_is_empty_unstripped(name) == name.chars = <<>>

\* not name.strip()
name_is_empty(name) == Strip(name.chars) = <<>>

StripError == Exc("AttributeError", "'NoneType' object has no attribute 'strip'")

\* the except clause of a tool: except Exception
tool_catches(e) == e.base = "Exception"

\* the fault's message left out of the envelope
after_request_without_fault_message(outcome, unable, prefix) ==
    IF outcome.kind = "raise"
    THEN IF tool_catches(outcome.exc)
         THEN ReturnText(Dumps(Envelope(prefix)))
         ELSE RaiseOut(outcome.exc)
    ELSE IF ~Truthy(outcome.value)
    THEN ReturnText(Dumps(Envelope(unable)))
    ELSE ReturnText(DumpsIndent2(outcome.value))

\* the code of a tool after its await of make_openmeteo_request, which
\* gave outcome: the three tools differ in their two messages only
after_request(outcome, unable, prefix) ==
    IF outcome.kind = "raise"
    THEN IF tool_catches(outcome.exc)
         THEN ReturnText(Dumps(Envelope(prefix \o outcome.exc.msg)))
         ELSE RaiseOut(outcome.exc)
    ELSE IF ~Truthy(outcome.value)
    THEN ReturnText(Dumps(Envelope(unable)))
    ELSE ReturnText(DumpsIndent2(outcome.value))

get_current_weather_after(outcome) ==
    after_request(outcome, "Unable to fetch current weather data for this location.",
                  "Error fetching weather data: ")

\* get_forecast with the messages of get_current_weather
get_forecast_after_with_weather_messages(outcome) == get_current_weather_after(outcome)

get_forecast_after(outcome) ==
    after_request(outcome, "Unable to fetch forecast data for this location.",
                  "Error fetching forecast data: ")

get_location_after(outcome) ==
    after_request(outcome, "Unable to search for locations.",
                  "Error searching for location: ")

VARIABLES pc, tool, args, binding, requests, get, data, result
vars == <<pc, tool, args, binding, requests, get, data, result>>

Init ==
    /\ pc = "idle"
    /\ tool = "none"
    /\ args = [latitude |-> NoCoord, longitude |-> NoCoord, days |-> 0, name |-> NoName]
    /\ binding = "none"
    /\ requests = <<>>
    /\ get = NoGet
    /\ data = Pending
    /\ result = Running

\* a tool is entered; make_openmeteo_request is server.py's own
\* (binding "server") or, as in test_server.py, a patch of it ("patched")
Enter(t, a, b) ==
    /\ pc = "idle"
    /\ tool' = t
    /\ args' = a
    /\ binding' = b
    /\ UNCHANGED <<get, data>>

\* the call ends before any request, with outcome r
EndEarly(r) ==
    /\ pc' = "done"
    /\ result' = r
    /\ UNCHANGED requests

\* make_openmeteo_request(url) is called and awaited
Await(url) ==
    /\ pc' = "awaiting"
    /\ requests' = Append(requests, url)
    /\ UNCHANGED result

Bindings == {"server", "patched"}

get_current_weather(latitude, longitude, b) ==
    /\ Enter("get_current_weather",
             [latitude |-> latitude, longitude |-> longitude, days |-> 0, name |-> NoName], b)
    /\ LET v == validate_coordinates(latitude, longitude)
       IN  IF v # Running THEN EndEarly(v)
           ELSE Await(current_weather_url(latitude, longitude))

get_forecast(latitude, longitude, days, b) ==
    /\ Enter("get_forecast",
             [latitude |-> latitude, longitude |-> longitude, days |-> days, name |-> NoName], b)
    /\ LET v == validate_coordinates(latitude, longitude)
       IN  IF v # Running THEN EndEarly(v)
           ELSE Await(forecast_url(latitude, longitude, days))

get_location(name, b) ==
    /\ Enter("get_location",
             [latitude |-> NoCoord, longitude |-> NoCoord, days |-> 0, name |-> name], b)
    /\ IF name.ty # "str"
       THEN \* name.strip() raises inside the try statement
            EndEarly(get_location_after(Raise(StripError)))
       ELSE IF name_is_empty(name)
       THEN EndEarly(ReturnText(Dumps(Envelope("Location name cannot be empty."))))
       ELSE Await(location_url(name))

\* the rest of the tool, once make_openmeteo_request gave outcome
Resume(outcome) ==
    /\ data' = outcome
    /\ result' = CASE tool = "get_current_weather" -> get_current_weather_after(outcome)
                   [] tool = "get_forecast" -> get_forecast_after(outcome)
                   [] OTHER -> get_location_after(outcome)
    /\ pc' = "done"
    /\ UNCHANGED <<tool, args, binding, requests>>

\* server.py's make_openmeteo_request is awaiting its GET
InFlight == pc = "awaiting" /\ binding = "server"

\* client.get raises httpx.TimeoutException
GetTimesOut ==
    /\ InFlight
    /\ get' = GetFault("timeout")
    /\ Resume(make_openmeteo_request(get'))

\* client.get raises a transport error
GetFailsInTransport ==
    /\ InFlight
    /\ get' = GetFault("transport")
    /\ Resume(make_openmeteo_request(get'))

\* the call is cancelled while client.get is awaited
GetIsCancelled ==
    /\ InFlight
    /\ get' = GetFault("cancelled")
    /\ Resume(make_openmeteo_request(get'))

\* client.get returns a response
GetResponds(status, body, aw) ==
    /\ InFlight
    /\ get' = GetResponse(status, body, aw)
    /\ Resume(make_openmeteo_request(get'))

\* the patch of make_openmeteo_request returns v (return_value=v)
PatchReturns(v) ==
    /\ pc = "awaiting"
    /\ binding = "patched"
    /\ UNCHANGED get
    /\ Resume(Return(v))

\* the patch raises (side_effect=Exception(message))
PatchRaises(message) ==
    /\ pc = "awaiting"
    /\ binding = "patched"
    /\ UNCHANGED get
    /\ Resume(Raise(Exc("Exception", message)))

FaultMessages == {"Generic error", ""}

Next ==
    \/ \E lat \in Latitudes, lon \in Longitudes, b \in Bindings :
          get_current_weather(lat, lon, b)
    \/ \E lat \in Latitudes, lon \in Longitudes, d \in DayCounts, b \in Bindings :
          get_forecast(lat, lon, d, b)
    \/ \E n \in Names, b \in Bindings : get_location(n, b)
    \/ GetTimesOut
    \/ GetFailsInTransport
    \/ GetIsCancelled
    \/ \E st \in Statuses, body \in Bodies, aw \in BOOLEAN : GetResponds(st, body, aw)
    \/ \E v \in Payloads \cup {JNull} : PatchReturns(v)
    \/ \E m \in FaultMessages : PatchRaises(m)

Spec == Init /\ [][Next]_vars

(***************************************************************************)
(* The properties.                                                         *)
(***************************************************************************)
\* the call returned a text that decodes to v
ReturnsJson(v) ==
    result.kind = "return" /\ Loads(result.text) = [ok |-> TRUE, val |-> v]

\* the call returned the envelope {"error": message}
ReturnsEnvelope(message) == ReturnsJson(Envelope(message))

HasKey(v, key) == v.t = "obj" /\ \E i \in 1..Len(v.kids) : v.kids[i][1] = key

IsNumber(c) == c.ty \in {"float", "nan"}
\* a number that is not within [-limit, limit]
Outside(c, limit) == c.ty = "nan" \/ c.n < -limit \/ c.n > limit
ValidCoordinates ==
    /\ IsNumber(args.latitude) /\ ~Outside(args.latitude, 90)
    /\ IsNumber(args.longitude) /\ ~Outside(args.longitude, 180)

UnableMessage ==
    CASE tool = "get_current_weather" ->
           "Unable to fetch current weather data for this location."
      [] tool = "get_forecast" -> "Unable to fetch forecast data for this location."
      [] OTHER -> "Unable to search for locations."

FaultPrefix ==
    CASE tool = "get_current_weather" -> "Error fetching weather data: "
      [] tool = "get_forecast" -> "Error fetching forecast data: "
      [] OTHER -> "Error searching for location: "

\* C1: a call of get_current_weather or get_forecast whose numeric latitude
\* is outside [-90, 90] returns the latitude envelope, one whose latitude is
\* inside and whose numeric longitude is outside [-180, 180] returns the
\* longitude envelope, both without any call of make_openmeteo_request;
\* coordinates on the limits are accepted and the request is made.
C1_InvalidCoordinatesRejected ==
    (/\ tool \in {"get_current_weather", "get_forecast"}
     /\ IsNumber(args.latitude)
     /\ Outside(args.latitude, 90) \/ IsNumber(args.longitude))
    => IF Outside(args.latitude, 90)
       THEN /\ pc = "done"
            /\ ReturnsEnvelope("Latitude must be between -90 and 90")
            /\ requests = <<>>
       ELSE IF Outside(args.longitude, 180)
       THEN /\ pc = "done"
            /\ ReturnsEnvelope("Longitude must be between -180 and 180")
            /\ requests = <<>>
       ELSE Len(requests) = 1

C1_Witness ==
    /\ pc = "done"
    /\ tool = "get_forecast"
    /\ args.latitude = Coord(-91)
    /\ args.longitude = Coord(181)
    /\ ReturnsEnvelope("Latitude must be between -90 and 90")
    /\ requests = <<>>

\* C2: whenever make_openmeteo_request returns a payload (any decoded JSON
\* value other than None, an empty object or an empty list included), the
\* tool returns a text that decodes to exactly that payload.
C2_PayloadReturnedVerbatim ==
    (pc = "done" /\ data.kind = "return" /\ data.value # JNull)
    => ReturnsJson(data.value)

\* C3: every call ends by returning a text of JSON; none raises.
C3_AlwaysReturnsText ==
    pc = "done" => (result.kind = "return" /\ Loads(result.text).ok)

\* C4: make_openmeteo_request returns the decoded body when the GET
\* completes with a 2xx status and the body decodes, and None on a timeout,
\* a non-2xx status, a transport fault and a body that does not decode.
C4_RequestReturnsBodyOrNone ==
    (pc = "done" /\ get.kind \in {"timeout", "transport", "response"})
    => LET decoded == Loads(get.body)
       IN  IF get.kind = "response" /\ get.status \in 200..299 /\ decoded.ok
           THEN data = Return(decoded.val)
           ELSE data = Return(JNull)

\* C5: with valid coordinates, get_forecast makes exactly one request, whose
\* forecast_days is days clamped to [1, 16], for every integer days; a
\* payload that arrives is returned whatever days was.
C5_ForecastDaysClamped ==
    (tool = "get_forecast" /\ ValidCoordinates)
    => /\ Len(requests) = 1
       /\ QueryValue(requests[1], "forecast_days") =
             IntStr(IF args.days < 1 THEN 1 ELSE IF args.days > 16 THEN 16 ELSE args.days)
       /\ (/\ pc = "done"
           /\ data.kind = "return"
           /\ data.value \notin {JNull, JObj(<<>>), JArr(<<>>)})
          => ReturnsJson(data.value)

C5_Witness ==
    /\ pc = "done"
    /\ tool = "get_forecast"
    /\ args.days > 16
    /\ Len(requests) = 1
    /\ QueryValue(requests[1], "forecast_days") = "16"
    /\ data.kind = "return"
    /\ HasKey(data.value, "current")
    /\ ReturnsJson(data.value)

\* C6: get_location of a name that is empty or all whitespace returns the
\* envelope "Location name cannot be empty." without any call of
\* make_openmeteo_request; for a name with a character that is not
\* whitespace the request is made.
C6_BlankNameRejected ==
    (tool = "get_location" /\ args.name.ty = "str")
    => IF \A i \in 1..Len(args.name.chars) : args.name.chars[i] \in {" ", "\t"}
       THEN /\ pc = "done"
            /\ ReturnsEnvelope("Location name cannot be empty.")
            /\ requests = <<>>
       ELSE /\ Len(requests) = 1
            /\ QueryValue(requests[1], "name") = JoinChars(args.name.chars)

C6_Witness ==
    /\ pc = "done"
    /\ tool = "get_location"
    /\ args.name = Name(<<" ", "\t">>)
    /\ ReturnsEnvelope("Location name cannot be empty.")
    /\ requests = <<>>

\* C7: when make_openmeteo_request returns None, the tool returns its own
\* fixed envelope, and one request only was made.
C7_AbsentGivesFixedEnvelope ==
    (pc = "done" /\ data = Return(JNull))
    => /\ ReturnsEnvelope(UnableMessage)
       /\ Len(requests) = 1

C7_Witness ==
    /\ pc = "done"
    /\ tool = "get_forecast"
    /\ get.kind = "timeout"
    /\ data = Return(JNull)
    /\ ReturnsEnvelope("Unable to fetch forecast data for this location.")

\* C8: when make_openmeteo_request raises an Exception of message m, the
\* tool returns the envelope of its fixed prefix followed by m.
C8_FaultGivesPrefixedEnvelope ==
    (pc = "done" /\ data.kind = "raise" /\ data.exc.base = "Exception")
    => ReturnsEnvelope(FaultPrefix \o data.exc.msg)

C8_Witness ==
    /\ pc = "done"
    /\ tool = "get_location"
    /\ data = Raise(Exc("Exception", "Generic error"))
    /\ ReturnsEnvelope("Error searching for location: Generic error")

C10_ErrorKeyIffFailed ==
    (pc = "done" /\ result.kind = "return")
    => (HasKey(Loads(result.text).val, "error")
        <=> (requests = <<>> \/ data = Return(JNull) \/ data.kind = "raise"))
=============================================================================
